---------------------------- MODULE Spec2Model ----------------------------
(***************************************************************************)
(* A model of preble's GlobalScheduler (multi_node/global_scheduler.py):   *)
(* the prefix-aware placement engine with its sliding-window histogram,    *)
(* its TTFT overload detector, its allocation map and its rebalancer.      *)
(*                                                                         *)
(* Tree nodes.  A node of the radix tree is named by the token path from   *)
(* the root to the END of its segment.  That path never changes: a split   *)
(* cuts the child's segment at the front (the child object keeps its end   *)
(* and its context_length) and creates the intermediate node at a new end, *)
(* and nodes are never deleted.  So the path is the identity of the Python *)
(* object, and parent, num_tokens and children follow from the set of      *)
(* paths.                                                                  *)
(*                                                                         *)
(* Time.  datetime.now() is the variable now, in whole minutes.  A call    *)
(* reads one value of the clock.                                           *)
(*                                                                         *)
(* Arithmetic.  cost / len(allocation) is a float in the source; the model *)
(* keeps loads as exact integer multiples of 1/LoadUnit.                   *)
(***************************************************************************)
EXTENDS Integers, Sequences, FiniteSets, TLC

\* ----------------------------------------------------------------- bounds
MaxToken == 2
MaxLen == 3
MaxTime == 4
MaxRoutes == 2
MaxFinish == 1
MaxTTFT == 2
MaxWindowRoutes == 3
MaxWindowFinish == 1
MaxWarmRoutes == 3
MaxSamples == 2
MaxDetectorSamples == 3
MaxInheritRoutes == 4
MaxReportRoutes == 2
MaxReports == 2
MaxExpireRoutes == 3
MaxGuardRoutes == 3
MaxEvictRoutes == 3
NumThreads == 2
MaxLockRoutes == 3
MaxLockFinish == 1
MaxLockTime == 1
MaxOverloadTime == 2
WarmRequests == 47

\* ------------------------------------------------------ program constants
\* timedelta(minutes=3), for the histogram and for the overload detector
window_duration == 3
\* sum(self.per_gpu_load.values()) < 50
MIN_TOTAL_LOAD == 50
\* HIGH_LOAD_THRESHOLD = 1.4 = ThresholdNum / ThresholdDen
ThresholdNum == 7
ThresholdDen == 5
\* loads are kept as multiples of 1/LoadUnit (cost / 1, cost / 2, cost / 3)
LoadUnit == 6

WorkerCounts == {2, 3}

VARIABLES
    num_gpus,            \* GlobalScheduler.num_gpus
    enable_rebalancing,  \* GlobalScheduler.enable_rebalancing
    nodes,               \* the non-root nodes of self.cache, as paths
    cached_gpus,         \* node -> LPTreeNode.cached_gpus
    evicted_gpus,        \* node -> LPTreeNode.evicted_gpus
    ref_counter,         \* node -> LPTreeNode.ref_counter (worker -> count)
    gpu_allocations,     \* GlobalScheduler.gpu_allocations (a dict)
    histogram,           \* SlidingWindowHistogram.histogram (a dict)
    node_to_count,       \* SlidingWindowHistogram.node_to_count (a dict)
    timestamps,          \* SlidingWindowHistogram.timestamps
    data,                \* TTFTWindowedOverloadedDetector.data (a dict)
    per_gpu_load,        \* GlobalScheduler.per_gpu_load
    counter,             \* GlobalScheduler.counter
    now,                 \* the wall clock
    finished,            \* finish_request calls made so far
    ev,                  \* what the last call did (history, for the properties)
    threads              \* self.lock, self.metrics_dict and the calling threads

vars == <<num_gpus, enable_rebalancing, nodes, cached_gpus, ref_counter,
          gpu_allocations, histogram, node_to_count, timestamps, data,
          per_gpu_load, counter, now, finished, ev, threads, evicted_gpus>>

\* ------------------------------------------------------------ dictionaries
EmptyDict == [x \in {} |-> 0]

Get(d, k, default) == IF k \in DOMAIN d THEN d[k] ELSE default

Put(d, k, v) == [x \in (DOMAIN d) \cup {k} |-> IF x = k THEN v ELSE d[x]]

Del(d, k) == [x \in (DOMAIN d) \ {k} |-> d[x]]

\* ------------------------------------------------------------------- tree
Root == << >>

Tokens == 1..MaxToken

RECURSIVE SeqsOfLen(_)
SeqsOfLen(n) ==
    IF n = 0 THEN {<< >>}
    ELSE {Append(s, t) : s \in SeqsOfLen(n - 1), t \in Tokens}

\* the token sequences a request may carry: non-empty, at most MaxLen long
Requests == UNION {SeqsOfLen(n) : n \in 1..MaxLen}

IsPrefix(p, s) == Len(p) <= Len(s) /\ SubSeq(s, 1, Len(p)) = p

IsProperPrefix(p, s) == Len(p) < Len(s) /\ SubSeq(s, 1, Len(p)) = p

\* LPTreeNode.parent: the deepest node above n (None for the root: not called)
Parent(T, n) ==
    CHOOSE p \in T \cup {Root} :
        /\ IsProperPrefix(p, n)
        /\ \A q \in T \cup {Root} : IsProperPrefix(q, n) => Len(q) <= Len(p)

\* LPTreeNode.context_length
context_length(n) == Len(n)

\* LPTreeNode.num_tokens == len(node.value)
num_tokens(T, n) == IF n = Root THEN 0 ELSE Len(n) - Len(Parent(T, n))

\* the nodes from n up to the root, n and the root included
PathToRoot(T, n) == {a \in T \cup {Root} : IsPrefix(a, n)}

\* all descendants of n (children, their children, ...)
Descendants(T, n) == {d \in T : IsProperPrefix(n, d)}

\* length of the longest common prefix of two sequences
RECURSIVE CommonLen(_, _)
CommonLen(a, b) ==
    IF a = << >> \/ b = << >> \/ Head(a) # Head(b) THEN 0
    ELSE 1 + CommonLen(Tail(a), Tail(b))

\* LPRadixCache.insert(key, split_nodes): the tree afterwards, the leaf whose
\* path is the key, and the split (child -> new intermediate node), if any.
insert(T, key) ==
    IF key \in T THEN [nodes |-> T, leaf |-> key, split |-> {}]
    ELSE
      LET m == Parent(T \cup {key}, key)    \* deepest existing node on the key
          below == {c \in T : Parent(T, c) = m /\ c[Len(m) + 1] = key[Len(m) + 1]}
      IN IF below = {} THEN [nodes |-> T \cup {key}, leaf |-> key, split |-> {}]
         ELSE LET child == CHOOSE c \in below : TRUE
                  new_node == SubSeq(key, 1, CommonLen(key, child))
              IN [nodes |-> T \cup {new_node, key}, leaf |-> key,
                  split |-> {<<child, new_node>>}]

\* the tree attributes after insert: a new leaf starts uncached with zero
\* reference counts; a new intermediate node inherits the split child's
attrs_after_insert(attr, ins, T, fresh) ==
    [n \in ins.nodes \cup {Root} |->
        IF n \in T \cup {Root} THEN attr[n]
        ELSE IF \E sp \in ins.split : sp[2] = n
             THEN attr[(CHOOSE sp \in ins.split : sp[2] = n)[1]]
             ELSE fresh]

\* LPRadixCache.find_node(key): the node whose path is the key, if there is one
find_node(T, key) == IF key \in T THEN {key} ELSE {}

\* LPTreeNode.has_cached_gpu
has_cached_gpu(cached, n, gpu) == gpu \in cached[n]

\* LPRadixCache.update_allocated_size(leaf, gpu): the worker is marked cached
\* and holds one more reference on every node from the leaf to the root
update_allocated_size_cached(T, cached, leaf, gpu) ==
    [n \in DOMAIN cached |->
        IF n \in PathToRoot(T, leaf) THEN cached[n] \cup {gpu} ELSE cached[n]]

\* a worker that caches a node again is no longer one it was evicted from
\* (cached_gpus and evicted_gpus stay disjoint)
update_allocated_size_evicted(T, evicted, leaf, gpu) ==
    [n \in DOMAIN evicted |->
        IF n \in PathToRoot(T, leaf) THEN evicted[n] \ {gpu} ELSE evicted[n]]

update_allocated_size_refs(T, refs, leaf, gpu) ==
    [n \in DOMAIN refs |->
        IF n \in PathToRoot(T, leaf)
        THEN [refs[n] EXCEPT ![gpu] = @ + 1] ELSE refs[n]]

\* LPRadixCache.remove_completed_input_ids(key, gpu): one reference less on
\* every node of the path
remove_completed_input_ids(T, refs, key, gpu) ==
    [n \in DOMAIN refs |->
        IF n \in PathToRoot(T, key)
        THEN [refs[n] EXCEPT ![gpu] = @ - 1] ELSE refs[n]]

\* ------------------------------------------------ SlidingWindowHistogram
\* The histogram is the record h of its three fields and of the allocation
\* dict it shares with the scheduler (self.gpu_allocations is one object).
\* An event of h.timestamps is <<timestamp, node, leaf_node>>.

\* the mutant of remove_old_entries_cut that keeps events one minute longer
remove_old_entries_cut_late(current_timestamp) ==
    current_timestamp - window_duration - 1

\* window_start = current_timestamp - self.window_duration
remove_old_entries_cut(current_timestamp) ==
    current_timestamp - window_duration

\* the mutant of expire_event that resets the allocation on every expiry
expire_event_reset_always(h) ==
    LET e == Head(h.timestamps)
        node == e[2]
        cost == Get(h.histogram, node, 0) - context_length(e[3])
        cnt == Get(h.node_to_count, node, 0) - 1
    IN [histogram |-> IF cost <= 0 THEN Del(h.histogram, node)
                      ELSE Put(h.histogram, node, cost),
        node_to_count |-> IF cost <= 0 THEN Del(h.node_to_count, node)
                          ELSE Put(h.node_to_count, node, cnt),
        timestamps |-> Tail(h.timestamps),
        gpu_allocations |-> Put(h.gpu_allocations, node, {})]

\* the body of the while loop of _remove_old_entries: pop the oldest event,
\* take its contribution back, and drop a node whose count fell to <= 0,
\* resetting its allocation
expire_event(h) ==
    LET e == Head(h.timestamps)
        node == e[2]
        cost == Get(h.histogram, node, 0) - context_length(e[3])
        cnt == Get(h.node_to_count, node, 0) - 1
    IN IF cost <= 0
       THEN [histogram |-> Del(h.histogram, node),
             node_to_count |-> Del(Put(h.node_to_count, node, cnt), node),
             timestamps |-> Tail(h.timestamps),
             gpu_allocations |-> Put(h.gpu_allocations, node, {})]
       ELSE [histogram |-> Put(h.histogram, node, cost),
             node_to_count |-> Put(h.node_to_count, node, cnt),
             timestamps |-> Tail(h.timestamps),
             gpu_allocations |-> h.gpu_allocations]

\* SlidingWindowHistogram._remove_old_entries
RECURSIVE remove_old_entries(_, _)
remove_old_entries(h, current_timestamp) ==
    IF /\ h.timestamps # << >>
       /\ Head(h.timestamps)[1] < remove_old_entries_cut(current_timestamp)
    THEN remove_old_entries(expire_event(h), current_timestamp)
    ELSE h

\* SlidingWindowHistogram.update
hist_update(h, timestamp, node, leaf_node) ==
    remove_old_entries(
        [histogram |-> Put(h.histogram, node,
                           Get(h.histogram, node, 0) + 1 * context_length(leaf_node)),
         node_to_count |-> Put(h.node_to_count, node,
                               Get(h.node_to_count, node, 0) + 1),
         timestamps |-> Append(h.timestamps, <<timestamp, node, leaf_node>>),
         gpu_allocations |-> h.gpu_allocations],
        timestamp)

\* the mutant of rename_node that moves the counters and leaves the events
hist_rename_node_counters(h, old_node, new_node) ==
    IF old_node \in DOMAIN h.histogram
    THEN [histogram |-> Put(Del(h.histogram, old_node), new_node,
                            h.histogram[old_node]),
          node_to_count |-> Put(Del(h.node_to_count, old_node), new_node,
                                Get(h.node_to_count, old_node, 0)),
          timestamps |-> h.timestamps,
          gpu_allocations |-> h.gpu_allocations]
    ELSE h

\* SlidingWindowHistogram.rename_node
hist_rename_node(h, old_node, new_node) ==
    IF old_node \in DOMAIN h.histogram
    THEN [histogram |-> Put(Del(h.histogram, old_node), new_node,
                            h.histogram[old_node]),
          node_to_count |-> Put(Del(h.node_to_count, old_node), new_node,
                                Get(h.node_to_count, old_node, 0)),
          timestamps |-> [i \in 1..Len(h.timestamps) |->
                            IF h.timestamps[i][2] = old_node
                            THEN <<h.timestamps[i][1], new_node, h.timestamps[i][3]>>
                            ELSE h.timestamps[i]],
          gpu_allocations |-> h.gpu_allocations]
    ELSE h

\* the sum over the histogram's nodes of one worker's share of each cost, in
\* units of 1/LoadUnit: allocation[gpu] += cost / len(gpu_allocations[node])
RECURSIVE share_sum(_, _, _, _)
share_sum(keys, hist, alloc, gpu) ==
    IF keys = {} THEN 0
    ELSE LET node == CHOOSE x \in keys : TRUE
         IN (IF gpu \in Get(alloc, node, {})
             THEN (LoadUnit * hist[node]) \div Cardinality(alloc[node])
             ELSE 0)
            + share_sum(keys \ {node}, hist, alloc, gpu)

\* SlidingWindowHistogram.current_allocation_per_gpu
current_allocation_per_gpu(hist, alloc, N) ==
    [gpu \in 0..(N - 1) |-> share_sum(DOMAIN hist, hist, alloc, gpu)]

\* ---------------------------------------- TTFTWindowedOverloadedDetector
\* self.data maps the key <<node, gpu>> to a deque of <<timestamp, value>>.

\* TTFTWindowedOverloadedDetector.purge_old_data, on one deque
RECURSIVE purge_old_data(_, _)
purge_old_data(q, current_time) ==
    IF q # << >> /\ Head(q)[1] < current_time - window_duration
    THEN purge_old_data(Tail(q), current_time)
    ELSE q

\* TTFTWindowedOverloadedDetector.add_data_point
add_data_point(d, timestamp, node, gpu, value) ==
    LET key == <<node, gpu>>
    IN Put(d, key, purge_old_data(Append(Get(d, key, << >>), <<timestamp, value>>),
                                  timestamp))

\* TTFTWindowedOverloadedDetector.rename_node
detector_rename_node(d, old_node, new_node, runtime_idx) ==
    LET old_key == <<old_node, runtime_idx>>
        new_key == <<new_node, runtime_idx>>
    IN IF old_key \in DOMAIN d THEN Put(Del(d, old_key), new_key, d[old_key])
       ELSE d

\* TTFTWindowedOverloadedDetector.delete_after_allocation
delete_after_allocation(d, node, gpu) ==
    IF <<node, gpu>> \in DOMAIN d THEN Del(d, <<node, gpu>>) ELSE d

RECURSIVE SumValues(_)
SumValues(q) == IF q = << >> THEN 0 ELSE Head(q)[2] + SumValues(Tail(q))

\* the samples of calculate_half_window_averages' first_half list:
\* timestamp < datetime.now() - self.half_window_duration
first_half(q, clock) == SelectSeq(q, LAMBDA x : 2 * x[1] < 2 * clock - window_duration)

\* and of its second_half list
second_half(q, clock) == SelectSeq(q, LAMBDA x : ~(2 * x[1] < 2 * clock - window_duration))

\* calculate_half_window_averages returns (None, None): no series, or a half
\* without samples
half_window_averages_none(d, key, clock) ==
    \/ key \notin DOMAIN d
    \/ first_half(d[key], clock) = << >>
    \/ second_half(d[key], clock) = << >>

\* TTFTWindowedOverloadedDetector.is_node_overloaded:
\* avg_second_half >= 2 * avg_first_half, the averages being sum / len
is_node_overloaded(d, node, gpu, clock) ==
    LET key == <<node, gpu>>
    IN IF half_window_averages_none(d, key, clock) THEN FALSE
       ELSE SumValues(second_half(d[key], clock)) * Len(first_half(d[key], clock))
              >= 2 * SumValues(first_half(d[key], clock)) * Len(second_half(d[key], clock))

\* -------------------------------------------------------- GlobalScheduler
Workers(N) == 0..(N - 1)

\* GlobalScheduler.is_large_node
is_large_node(T, node) == num_tokens(T, node) > context_length(node) - num_tokens(T, node)

\* GlobalScheduler.is_small_node
is_small_node(T, node) == ~is_large_node(T, node)

\* GlobalScheduler.get_important_node
RECURSIVE get_important_node(_, _)
get_important_node(T, node) ==
    IF is_large_node(T, node) THEN node
    ELSE get_important_node(T, Parent(T, node))

\* the mutant of get_parent_gpu_allocation that never looks at the map
get_parent_gpu_allocation_all(T, alloc, node, N) == Workers(N)

\* the mutant of get_parent_gpu_allocation that stops at the first entry, empty
\* or not, and answers every worker for an empty one
RECURSIVE get_parent_gpu_allocation_nearest(_, _, _, _)
get_parent_gpu_allocation_nearest(T, alloc, node, N) ==
    IF node \in DOMAIN alloc
    THEN (IF alloc[node] = {} THEN Workers(N) ELSE alloc[node])
    ELSE IF node = Root THEN Workers(N)
    ELSE get_parent_gpu_allocation_nearest(T, alloc, Parent(T, node), N)

\* GlobalScheduler.get_parent_gpu_allocation: the first non-empty entry from
\* the node upwards (an empty set is falsy), self.all_gpus past the root
RECURSIVE get_parent_gpu_allocation(_, _, _, _)
get_parent_gpu_allocation(T, alloc, node, N) ==
    IF Get(alloc, node, {}) # {} THEN alloc[node]
    ELSE IF node = Root THEN Workers(N)
    ELSE get_parent_gpu_allocation(T, alloc, Parent(T, node), N)

\* GlobalScheduler.update_gpu_allocation_for_parent
update_gpu_allocation_for_parent(T, alloc, node, gpu_id) ==
    [n \in (DOMAIN alloc) \cup PathToRoot(T, node) |->
        IF n \in PathToRoot(T, node) THEN Get(alloc, n, {}) \cup gpu_id
        ELSE alloc[n]]

\* GlobalScheduler.get_recomp_cost_basic
RECURSIVE get_recomp_cost_basic(_, _, _, _, _)
get_recomp_cost_basic(T, cached, refs, node, gpu_id) ==
    IF has_cached_gpu(cached, node, gpu_id) THEN 0
    ELSE num_tokens(T, node) * refs[node][gpu_id]
         + (IF node = Root THEN 0
            ELSE get_recomp_cost_basic(T, cached, refs, Parent(T, node), gpu_id))

\* the mutant of argmin that breaks ties towards the highest index
argmin_last(costs) ==
    CHOOSE i \in DOMAIN costs :
        \A j \in DOMAIN costs : costs[i] < costs[j] \/ (costs[i] = costs[j] /\ j <= i)

\* np.argmin: the first index of the least value
argmin(costs) ==
    CHOOSE i \in DOMAIN costs :
        \A j \in DOMAIN costs : costs[i] < costs[j] \/ (costs[i] = costs[j] /\ i <= j)

\* GlobalScheduler.handle_split_nodes_gpu_allocations
\* (gpu_allocations[child_node] raises KeyError when the child has no entry)
handle_split_nodes_gpu_allocations(split_nodes, alloc) ==
    [n \in (DOMAIN alloc) \cup {sp[2] : sp \in split_nodes} |->
        IF \E sp \in split_nodes : sp[2] = n
        THEN alloc[(CHOOSE sp \in split_nodes : sp[2] = n)[1]]
        ELSE alloc[n]]

\* the for loop of handle_split_node_histogram over the child's workers
RECURSIVE rename_for_gpus(_, _, _, _)
rename_for_gpus(d, gpus, child, parent_node) ==
    IF gpus = {} THEN d
    ELSE LET gpu == CHOOSE g \in gpus : TRUE
         IN rename_for_gpus(detector_rename_node(d, child, parent_node, gpu),
                            gpus \ {gpu}, child, parent_node)

\* GlobalScheduler.handle_split_node_histogram, for the one split of an insert:
\* the histogram record and the detector dict afterwards
handle_split_node_histogram(T, split_nodes, h, d) ==
    IF split_nodes = {} THEN [h |-> h, d |-> d]
    ELSE LET sp == CHOOSE x \in split_nodes : TRUE
             child == sp[1]
             parent_node == sp[2]
         IN IF is_large_node(T, parent_node) /\ ~is_large_node(T, child)
            THEN [h |-> hist_rename_node(h, child, parent_node),
                  d |-> rename_for_gpus(d, Get(h.gpu_allocations, child, {}),
                                        child, parent_node)]
            ELSE [h |-> h, d |-> d]

\* ------------------------------------------------------------ rebalancer
\* The rebalancer works on the record st: the allocation dict, the detector
\* dict, the exception raised ("none" when none) and, for the properties, one
\* record per recursion level it ran (st.levels).

RECURSIVE SumLoad(_, _)
SumLoad(load, gpus) ==
    IF gpus = {} THEN 0
    ELSE LET g == CHOOSE x \in gpus : TRUE
         IN load[g] + SumLoad(load, gpus \ {g})

\* sorted(allocations_with_indices, key=lambda x: -x[1]): descending cost,
\* equal costs in ascending worker order (the sort is stable)
RECURSIVE sorted_by_cost(_, _)
sorted_by_cost(cost, gpus) ==
    IF gpus = {} THEN << >>
    ELSE LET g == CHOOSE x \in gpus :
                    \A y \in gpus : cost[x] > cost[y] \/ (cost[x] = cost[y] /\ x <= y)
         IN <<<<g, cost[g]>>>> \o sorted_by_cost(cost, gpus \ {g})

\* the order of two nodes of equal cost in the heap (LPTreeNode.__lt__ is not
\* part of this file): by path, forwards or backwards
RECURSIVE NodeRank(_)
NodeRank(n) == IF n = << >> THEN 0
               ELSE n[Len(n)] + (MaxToken + 1) * NodeRank(SubSeq(n, 1, Len(n) - 1))

\* heapq.heappop: the least (cost, node)
heappop(heap, tie) ==
    CHOOSE c \in heap : \A o \in heap :
        \/ c[1] < o[1]
        \/ c[1] = o[1] /\ (IF tie THEN NodeRank(c[2]) <= NodeRank(o[2])
                                  ELSE NodeRank(c[2]) >= NodeRank(o[2]))

\* the mutant of update_children that stops at the children
update_children_shallow(T, alloc, node, gpu_id) ==
    [n \in (DOMAIN alloc) \cup {d \in Descendants(T, node) : Parent(T, d) = node} |->
        IF n \in Descendants(T, node) /\ Parent(T, n) = node THEN {gpu_id}
        ELSE alloc[n]]

\* GlobalScheduler.update_children
update_children(T, alloc, node, gpu_id) ==
    [n \in (DOMAIN alloc) \cup Descendants(T, node) |->
        IF n \in Descendants(T, node) THEN {gpu_id} ELSE alloc[n]]

\* the mutant of would_invert that forgets the cost the cold worker gains
would_invert_one_sided(larger_allocation_cost, smaller_device_allocation_cost, cost) ==
    larger_allocation_cost - cost < smaller_device_allocation_cost

\* larger_allocation_cost - cost < smaller_device_allocation_cost + cost
would_invert(larger_allocation_cost, smaller_device_allocation_cost, cost) ==
    larger_allocation_cost - cost < smaller_device_allocation_cost + cost

\* the while loop of the multi-candidate path.  lp is the loop's state: the
\* heap, the running costs (in units of 1/LoadUnit), the allocation dict, the
\* exception, and the steps taken so far.
RECURSIVE multi_loop(_, _, _, _, _)
multi_loop(T, lp, larger_device, smaller_device, tie) ==
    IF lp.heap = {} THEN lp
    ELSE
      LET top == heappop(lp.heap, tie)
          cost == LoadUnit * top[1]
          node == top[2]
          rest == lp.heap \ {top}
          step(act) == [node |-> node, cost |-> cost, act |-> act,
                        hot |-> lp.hot, cold |-> lp.cold,
                        had_cold |-> smaller_device \in lp.alloc[node]]
      IN IF ~is_large_node(T, node)
         THEN [lp EXCEPT !.heap = rest, !.err = "AssertionError",
                         !.steps = Append(@, step("assert"))]
         ELSE IF smaller_device \in lp.alloc[node]
         THEN multi_loop(T, [lp EXCEPT !.heap = rest,
                                       !.steps = Append(@, step("skip"))],
                         larger_device, smaller_device, tie)
         ELSE IF would_invert(lp.hot, lp.cold, cost)
         THEN [lp EXCEPT !.heap = rest, !.steps = Append(@, step("break"))]
         ELSE multi_loop(T,
                [heap |-> rest,
                 hot |-> lp.hot - cost,
                 cold |-> lp.cold + cost,
                 alloc |-> update_children(T, Put(lp.alloc, node, {smaller_device}),
                                           node, smaller_device),
                 err |-> lp.err,
                 steps |-> Append(lp.steps, step("reassign"))],
                larger_device, smaller_device, tie)

\* the mutant of replicate that moves the node instead of copying it
replicate_move(alloc, node, larger_device, smaller_device) ==
    Put(alloc, node, {smaller_device})

\* self.gpu_allocations[node].add(smaller_device)
replicate(alloc, node, larger_device, smaller_device) ==
    Put(alloc, node, alloc[node] \cup {smaller_device})

\* GlobalScheduler.handle_important_node_stealing_recursive
RECURSIVE handle_important_node_stealing_recursive(_, _, _, _, _, _, _)
handle_important_node_stealing_recursive(T, hist, cnt, clock, tie, L, st) ==
    IF Len(L) = 1 \/ st.err # "none" THEN st
    ELSE
      LET larger_device == L[1][1]
          larger_allocation_cost == L[1][2]
          smaller_device == L[Len(L)][1]
          smaller_device_allocation_cost == L[Len(L)][2]
      IN IF ThresholdDen * larger_allocation_cost
              < ThresholdNum * smaller_device_allocation_cost
         THEN st
         ELSE IF \E n \in DOMAIN hist : n \notin DOMAIN st.alloc
         THEN [st EXCEPT !.err = "TypeError"]    \* larger_device in None
         ELSE
           LET node_cost_for_gpu ==
                   {<<hist[n], n>> : n \in {x \in DOMAIN hist :
                        larger_device \in st.alloc[x] /\ Get(cnt, x, 0) > 1}}
               next_list(hot1, cold1) ==
                   Tail([i \in 1..Len(L) |->
                           IF i = 1 THEN <<larger_device, hot1>>
                           ELSE IF i = Len(L) THEN <<smaller_device, cold1>>
                           ELSE L[i]])
               level(path, steps, hot1, cold1, alloc1, data1, over) ==
                   [L |-> L, path |-> path, heap |-> node_cost_for_gpu,
                    larger |-> larger_device, smaller |-> smaller_device,
                    hot0 |-> larger_allocation_cost,
                    cold0 |-> smaller_device_allocation_cost,
                    alloc0 |-> st.alloc, data0 |-> st.data,
                    overloaded |-> over, steps |-> steps,
                    hot1 |-> hot1, cold1 |-> cold1,
                    alloc1 |-> alloc1, data1 |-> data1,
                    next |-> next_list(hot1, cold1)]
           IN IF Cardinality(node_cost_for_gpu) = 1
              THEN
                LET only == CHOOSE c \in node_cost_for_gpu : TRUE
                    cost == (LoadUnit * only[1]) \div 2
                    node == only[2]
                    over == is_node_overloaded(st.data, node, larger_device, clock)
                    copy == smaller_device \notin st.alloc[node] /\ over
                    hot1 == IF copy THEN larger_allocation_cost - cost
                            ELSE larger_allocation_cost
                    cold1 == IF copy THEN smaller_device_allocation_cost + cost
                             ELSE smaller_device_allocation_cost
                    alloc1 == IF copy
                              THEN replicate(st.alloc, node, larger_device, smaller_device)
                              ELSE st.alloc
                    data1 == IF copy
                             THEN delete_after_allocation(st.data, node, larger_device)
                             ELSE st.data
                IN handle_important_node_stealing_recursive(T, hist, cnt, clock, tie,
                       next_list(hot1, cold1),
                       [alloc |-> alloc1, data |-> data1, err |-> "none",
                        levels |-> Append(st.levels,
                            level("single", << >>, hot1, cold1, alloc1, data1, over))])
              ELSE
                LET lp == multi_loop(T,
                              [heap |-> node_cost_for_gpu,
                               hot |-> larger_allocation_cost,
                               cold |-> smaller_device_allocation_cost,
                               alloc |-> st.alloc, err |-> "none", steps |-> << >>],
                              larger_device, smaller_device, tie)
                IN handle_important_node_stealing_recursive(T, hist, cnt, clock, tie,
                       next_list(lp.hot, lp.cold),
                       [alloc |-> lp.alloc, data |-> st.data, err |-> lp.err,
                        levels |-> Append(st.levels,
                            level("multi", lp.steps, lp.hot, lp.cold, lp.alloc,
                                  st.data, FALSE))])

\* the mutant of handle_important_node_stealing without the test of the total load
handle_important_node_stealing_eager(T, hist, cnt, alloc, d, load, clock, tie, N) ==
    handle_important_node_stealing_recursive(T, hist, cnt, clock, tie,
        sorted_by_cost(current_allocation_per_gpu(hist, alloc, N), Workers(N)),
        [alloc |-> alloc, data |-> d, err |-> "none", levels |-> << >>])

\* GlobalScheduler.handle_important_node_stealing
handle_important_node_stealing(T, hist, cnt, alloc, d, load, clock, tie, N) ==
    LET st0 == [alloc |-> alloc, data |-> d, err |-> "none", levels |-> << >>]
    IN IF SumLoad(load, Workers(N)) < MIN_TOTAL_LOAD THEN st0
       ELSE handle_important_node_stealing_recursive(T, hist, cnt, clock, tie,
                sorted_by_cost(current_allocation_per_gpu(hist, alloc, N), Workers(N)),
                st0)

\* ---------------------------------------------------------------- actions
\* The scheduler's lock is held for the whole of runtime_selector and of
\* finish_request, so each call is one step.

NoPrev == [valid |-> FALSE, input_ids |-> << >>, hint |-> {}, ret |-> {},
           rebalanced |-> FALSE]

\* the hints a caller may pass: None ({}) or one worker
Hints(N) == {{}} \cup {{g} : g \in Workers(N)}

\* the threads that call the scheduler; NoThread holds the lock when it is free
Threads == 1..NumThreads

NoThread == 0

\* GlobalScheduler.__init__
Init ==
    /\ num_gpus \in WorkerCounts
    /\ enable_rebalancing \in BOOLEAN
    /\ nodes = {}
    /\ cached_gpus = [n \in {Root} |-> {}]
    /\ evicted_gpus = [n \in {Root} |-> {}]
    /\ ref_counter = [n \in {Root} |-> [g \in Workers(num_gpus) |-> 0]]
    /\ gpu_allocations = EmptyDict
    /\ histogram = EmptyDict
    /\ node_to_count = EmptyDict
    /\ timestamps = << >>
    /\ data = EmptyDict
    /\ per_gpu_load = [g \in Workers(num_gpus) |-> 0]
    /\ counter = 0
    /\ now = 0
    /\ finished = 0
    /\ ev = [op |-> "init"]
    /\ threads = [lock |-> NoThread,
                  pc |-> [t \in Threads |-> "idle"],
                  call |-> [t \in Threads |-> [op |-> "none"]],
                  issued |-> 0,
                  acquired |-> << >>,
                  served |-> << >>,
                  metrics_dict |-> << >>]

\* what split handling did, for the properties: the child's histogram entry
\* and detector series before the call, and what is keyed by the child and by
\* the new node once handle_split_node_histogram has run (sh)
split_record(split_nodes, sh) ==
    IF split_nodes = {} THEN << >>
    ELSE LET x == CHOOSE y \in split_nodes : TRUE
         IN <<[child |-> x[1], new_node |-> x[2],
               child_cost0 |-> Get(histogram, x[1], 0),
               child_count0 |-> Get(node_to_count, x[1], 0),
               child_series0 |-> {k \in DOMAIN data : k[1] = x[1]},
               new_cost |-> Get(sh.h.histogram, x[2], 0),
               new_count |-> Get(sh.h.node_to_count, x[2], 0),
               child_in_hist |-> x[1] \in DOMAIN sh.h.histogram
                                   \/ x[1] \in DOMAIN sh.h.node_to_count,
               child_in_events |-> \E i \in 1..Len(sh.h.timestamps) :
                                       sh.h.timestamps[i][2] = x[1],
               child_series |-> {k \in DOMAIN sh.d : k[1] = x[1]}]>>

\* GlobalScheduler.runtime_selector(input_ids=..., runtime_id_with_highest_hit_rate=hint);
\* hint is {} for None and {w} for worker w
runtime_selector(input_ids, hint, tie) ==
    \E ins \in {insert(nodes, input_ids)} :
    \E cached1 \in {attrs_after_insert(cached_gpus, ins, nodes, {})} :
    \E refs1 \in {attrs_after_insert(ref_counter, ins, nodes,
                                     [g \in Workers(num_gpus) |-> 0])} :
    \E sh \in {handle_split_node_histogram(ins.nodes, ins.split,
                  [histogram |-> histogram, node_to_count |-> node_to_count,
                   timestamps |-> timestamps,
                   gpu_allocations |->
                       handle_split_nodes_gpu_allocations(ins.split, gpu_allocations)],
                  data)} :
    \E important_node \in {get_important_node(ins.nodes, ins.leaf)} :
    \E recom_costs \in {[g \in Workers(num_gpus) |->
                           get_recomp_cost_basic(ins.nodes, cached1, refs1,
                                                 Parent(ins.nodes, ins.leaf), g)]} :
    \E histogram_mem_cost \in
           {current_allocation_per_gpu(sh.h.histogram, sh.h.gpu_allocations, num_gpus)} :
    \E gpu_selected \in
           {IF num_tokens(ins.nodes, ins.leaf)
                  < context_length(ins.leaf) - num_tokens(ins.nodes, ins.leaf)
            THEN get_parent_gpu_allocation(ins.nodes, sh.h.gpu_allocations, ins.leaf,
                                           num_gpus)
            ELSE IF hint = {}
            THEN {argmin([g \in Workers(num_gpus) |->
                            LoadUnit * recom_costs[g] + histogram_mem_cost[g]])}
            ELSE hint} :
    \E h2 \in {hist_update(sh.h, now, important_node, ins.leaf)} :
    \E alloc3 \in {update_gpu_allocation_for_parent(ins.nodes, h2.gpu_allocations,
                                                    ins.leaf, gpu_selected)} :
    \E runtime_idx \in gpu_selected :    \* np.random.choice when more than one
    \E load1 \in {[per_gpu_load EXCEPT ![runtime_idx] = @ + 1]} :
    \E st \in {IF enable_rebalancing
               THEN handle_important_node_stealing(ins.nodes, h2.histogram,
                        h2.node_to_count, alloc3, sh.d, load1, now, tie, num_gpus)
               ELSE [alloc |-> alloc3, data |-> sh.d, err |-> "none",
                     levels |-> << >>]} :
        /\ nodes' = ins.nodes
        /\ cached_gpus' = update_allocated_size_cached(ins.nodes, cached1, ins.leaf,
                                                       runtime_idx)
        /\ ref_counter' = update_allocated_size_refs(ins.nodes, refs1, ins.leaf,
                                                     runtime_idx)
        /\ evicted_gpus' = update_allocated_size_evicted(ins.nodes,
                               attrs_after_insert(evicted_gpus, ins, nodes, {}),
                               ins.leaf, runtime_idx)
        /\ gpu_allocations' = st.alloc
        /\ histogram' = h2.histogram
        /\ node_to_count' = h2.node_to_count
        /\ timestamps' = h2.timestamps
        /\ data' = st.data
        /\ per_gpu_load' = load1
        /\ counter' = IF st.err = "none" THEN counter + 1 ELSE counter
        /\ ev' = [op |-> "route", input_ids |-> input_ids, hint |-> hint,
                  clock |-> now, err |-> st.err,
                  ret |-> IF st.err = "none" THEN {runtime_idx} ELSE {},
                  leaf |-> ins.leaf,
                  small |-> num_tokens(ins.nodes, ins.leaf)
                              < context_length(ins.leaf) - num_tokens(ins.nodes, ins.leaf),
                  important |-> important_node,
                  recom_costs |-> recom_costs, load |-> histogram_mem_cost,
                  fresh |-> current_allocation_per_gpu(
                                remove_old_entries(sh.h, now).histogram,
                                remove_old_entries(sh.h, now).gpu_allocations,
                                num_gpus),
                  selected |-> gpu_selected,
                  runtime_idx |-> runtime_idx,
                  alloc0 |-> gpu_allocations,
                  placed0 |-> h2.gpu_allocations,
                  placed1 |-> alloc3,
                  load0 |-> per_gpu_load,
                  data0 |-> sh.d,
                  split |-> split_record(ins.split, sh),
                  purged |-> Len(timestamps) + 1 - Len(h2.timestamps),
                  rebalanced |-> enable_rebalancing
                                 /\ SumLoad(load1, Workers(num_gpus)) >= MIN_TOTAL_LOAD,
                  levels |-> st.levels,
                  prev |-> IF ev.op = "route"
                           THEN [valid |-> TRUE, input_ids |-> ev.input_ids,
                                 hint |-> ev.hint, ret |-> ev.ret,
                                 rebalanced |-> ev.rebalanced]
                           ELSE NoPrev]
        /\ UNCHANGED <<num_gpus, enable_rebalancing, now, finished>>

\* a caller routes one of the requests reqs with one of the hints
Route(reqs, hints, ties, budget) ==
    /\ SumLoad(per_gpu_load, Workers(num_gpus)) < budget
    /\ \E input_ids \in reqs, hint \in hints, tie \in ties :
        runtime_selector(input_ids, hint, tie)
    /\ UNCHANGED threads

\* GlobalScheduler.finish_request(input_ids, func_output) with
\* func_output.runtime_selected = runtime_id and func_output.ttft = ttft
finish_request(input_ids, runtime_id, ttft) ==
    LET leaf_node == CHOOSE n \in find_node(nodes, input_ids) : TRUE
        important_node == get_important_node(nodes, leaf_node)
    IN /\ data' = add_data_point(data, now, important_node, runtime_id, ttft)
       /\ ref_counter' = remove_completed_input_ids(nodes, ref_counter, input_ids, runtime_id)
       /\ finished' = finished + 1
       /\ ev' = [op |-> "finish", input_ids |-> input_ids, runtime_id |-> runtime_id,
                 clock |-> now]
       /\ UNCHANGED <<num_gpus, enable_rebalancing, nodes, cached_gpus, gpu_allocations,
                      histogram, node_to_count, timestamps, per_gpu_load, counter, now,
                      evicted_gpus>>

\* a worker reports the completion of a request it is serving (it holds a
\* reference on the request's node)
Finish(budget) ==
    /\ finished < budget
    /\ \E input_ids \in nodes, runtime_id \in Workers(num_gpus), ttft \in 1..MaxTTFT :
        /\ ref_counter[input_ids][runtime_id] > 0
        /\ finish_request(input_ids, runtime_id, ttft)
    /\ UNCHANGED threads

\* the allocation map after the inner function of evict_callback ran on a
\* large node: the worker is removed from the node's set; the loop over the
\* node's children then calls self.remove_allocations_recursive_for_children,
\* which GlobalScheduler does not have (the function is local), and raises
remove_allocations_recursive_for_children(T, alloc, node, runtime_selected) ==
    IF node \notin DOMAIN alloc \/ runtime_selected \notin alloc[node]
    THEN [alloc |-> alloc, err |-> "none"]
    ELSE [alloc |-> Put(alloc, node, alloc[node] \ {runtime_selected}),
          err |-> IF \E d \in Descendants(T, node) : Parent(T, d) = node
                  THEN "AttributeError" ELSE "none"]

\* GlobalScheduler.evict_callback(node, runtime_selected), called by the tree
\* for a node that the worker caches
evict_callback(node, runtime_selected) ==
    /\ runtime_selected \in cached_gpus[node]
    /\ \E r \in {IF is_large_node(nodes, node)
                  THEN remove_allocations_recursive_for_children(
                           nodes, gpu_allocations, node, runtime_selected)
                  ELSE [alloc |-> gpu_allocations, err |-> "none"]} :
        /\ evicted_gpus' = [evicted_gpus EXCEPT ![node] = @ \cup {runtime_selected}]
        /\ cached_gpus' = [cached_gpus EXCEPT ![node] = @ \ {runtime_selected}]
        /\ gpu_allocations' = r.alloc
        /\ ev' = [op |-> "evict", node |-> node, runtime_selected |-> runtime_selected,
                  err |-> r.err,
                  ret |-> IF r.err = "none" THEN {num_tokens(nodes, node)} ELSE {},
                  alloc0 |-> gpu_allocations]
    /\ UNCHANGED <<num_gpus, enable_rebalancing, nodes, ref_counter, histogram,
                   node_to_count, timestamps, data, per_gpu_load, counter, now,
                   finished, threads>>

\* the clock advances by step minutes
Tick(step, limit) ==
    /\ now + step <= limit
    /\ now' = now + step
    /\ ev' = [op |-> "tick"]
    /\ UNCHANGED <<num_gpus, enable_rebalancing, nodes, cached_gpus, ref_counter,
                   gpu_allocations, histogram, node_to_count, timestamps, data,
                   per_gpu_load, counter, finished, threads, evicted_gpus>>

\* ------------------------------------------------------- specifications
\* Spec: a scheduler without rebalancing, any request, any hint; between
\* calls the scheduler may sit idle for longer than the window.
InitCold == Init /\ ~enable_rebalancing

ColdRoute == Route(Requests, Hints(num_gpus), {TRUE}, MaxRoutes)

ColdFinish == Finish(MaxFinish)

Idle == Tick(window_duration + 1, MaxTime)

Next == ColdRoute \/ ColdFinish \/ Idle

Spec == InitCold /\ [][Next]_vars

\* SpecWindow: a scheduler without rebalancing and with two workers, a few
\* requests that split each other, no hints, and a clock that advances minute
\* by minute.
WindowRequests == {<<1, 2>>, <<1, 1>>, <<2>>}

InitWindow == Init /\ ~enable_rebalancing /\ num_gpus = 2

WindowRoute == Route(WindowRequests, {{}}, {TRUE}, MaxWindowRoutes)

WindowFinish == Finish(MaxWindowFinish)

Minute == Tick(1, MaxTime)

NextWindow == WindowRoute \/ WindowFinish \/ Minute

SpecWindow == InitWindow /\ [][NextWindow]_vars

\* SpecWarm: a scheduler with rebalancing enabled.  Its first WarmRequests
\* requests are the same one-token request, hinted to worker 0, at time 0;
\* then come any requests, hinted to worker 0 or not.
WarmSeq == <<1>>

Warming == SumLoad(per_gpu_load, Workers(num_gpus)) < WarmRequests

InitWarm == Init /\ enable_rebalancing

WarmUp == Warming /\ Route({WarmSeq}, {{0}}, {TRUE}, WarmRequests)

WarmRoute == ~Warming /\ Route(Requests, {{}, {0}}, BOOLEAN, WarmRequests + MaxWarmRoutes)

NextWarm == WarmUp \/ WarmRoute

SpecWarm == InitWarm /\ [][NextWarm]_vars

\* SpecOverload: the same warm-up, then requests for two prefixes hinted to
\* worker 0 or not, completions reported by the workers, and a clock that
\* advances minute by minute.
OverloadRequests == {<<1>>, <<2>>}

OverloadRoute ==
    ~Warming /\ Route(OverloadRequests, {{}, {0}}, {TRUE}, WarmRequests + MaxWarmRoutes)

OverloadFinish == ~Warming /\ Finish(MaxSamples)

OverloadMinute == ~Warming /\ Tick(1, MaxOverloadTime)

NextOverload == WarmUp \/ OverloadRoute \/ OverloadFinish \/ OverloadMinute

InitOverload == InitWarm /\ num_gpus = 2

SpecOverload == InitOverload /\ [][NextOverload]_vars

\* SpecInherit: two workers with rebalancing; after the warm-up the callers
\* send two requests that share a prefix, and a third one.
InheritRequests == {<<1, 1, 1>>, <<1, 1, 2>>, <<2>>}

InheritRoute == ~Warming /\ Route(InheritRequests, {{}, {0}}, {TRUE},
                                  WarmRequests + MaxInheritRoutes)

NextInherit == WarmUp \/ InheritRoute

SpecInherit == InitOverload /\ [][NextInherit]_vars

\* SpecDetector: a scheduler without rebalancing and with two workers serves
\* one prefix; the workers report completions while the clock advances minute
\* by minute.
InitDetector == Init /\ ~enable_rebalancing /\ num_gpus = 2

DetectorRoute == Route({<<1>>}, {{}}, {TRUE}, MaxDetectorSamples)

DetectorFinish == Finish(MaxDetectorSamples)

NextDetector == DetectorRoute \/ DetectorFinish \/ Minute

SpecDetector == InitDetector /\ [][NextDetector]_vars

\* SpecReport: two workers without rebalancing; the completion reports name
\* any worker id from 0 to N, and N is not a worker.
InitReport == Init /\ ~enable_rebalancing /\ num_gpus = 2

ReportRoute == Route(WindowRequests, {{}}, {TRUE}, MaxReportRoutes)

\* finish_request has no test of func_output.runtime_selected: a report is
\* accepted with a worker id that served the request or is out of range
Report ==
    /\ finished < MaxReports
    /\ \E input_ids \in nodes, runtime_id \in 0..num_gpus, ttft \in 1..MaxTTFT :
        /\ runtime_id \in Workers(num_gpus) => ref_counter[input_ids][runtime_id] > 0
        /\ finish_request(input_ids, runtime_id, ttft)
    /\ UNCHANGED threads

NextReport == ReportRoute \/ Report

SpecReport == InitReport /\ [][NextReport]_vars

\* SpecLock: NumThreads threads call runtime_selector and finish_request
\* concurrently on a scheduler of two workers without rebalancing. A call
\* takes start_time, waits for self.lock, runs the locked block and releases;
\* runtime_selector then appends to metrics_dict outside the lock. The clock
\* may advance between any two steps.
InitLock == Init /\ ~enable_rebalancing /\ num_gpus = 2

LockRequests == {<<1, 1>>, <<1, 2>>}

rest == <<num_gpus, enable_rebalancing, nodes, cached_gpus, ref_counter,
          gpu_allocations, histogram, node_to_count, timestamps, data,
          per_gpu_load, counter, now, finished, ev, evicted_gpus>>

\* a thread enters runtime_selector (start_time = time.time()) or finish_request
Call(t) ==
    /\ threads.pc[t] = "idle"
    /\ \/ /\ threads.issued < MaxLockRoutes
          /\ \E input_ids \in LockRequests :
              threads' = [threads EXCEPT
                  !.pc[t] = "waiting",
                  !.issued = @ + 1,
                  !.call[t] = [op |-> "route", input_ids |-> input_ids,
                               start_time |-> now]]
       \/ /\ finished < MaxLockFinish
          /\ \A u \in Threads : threads.call[u].op # "finish"
          /\ \E input_ids \in nodes, runtime_id \in Workers(num_gpus), ttft \in 1..MaxTTFT :
              /\ ref_counter[input_ids][runtime_id] > 0
              /\ threads' = [threads EXCEPT
                     !.pc[t] = "waiting",
                     !.call[t] = [op |-> "finish", input_ids |-> input_ids,
                                  runtime_id |-> runtime_id, ttft |-> ttft]]
    /\ UNCHANGED rest

\* with self.lock, entered without looking at the holder
Acquire_unlocked(t) ==
    /\ threads.pc[t] = "waiting"
    /\ threads' = [threads EXCEPT !.lock = t, !.pc[t] = "locked",
                                  !.acquired = Append(@, t)]
    /\ UNCHANGED rest

\* with self.lock: threading.Lock.acquire returns once the lock is free
Acquire(t) ==
    /\ threads.pc[t] = "waiting"
    /\ threads.lock = NoThread
    /\ threads' = [threads EXCEPT !.lock = t, !.pc[t] = "locked",
                                  !.acquired = Append(@, t)]
    /\ UNCHANGED rest

\* the block under the lock, and the release at its end
Locked(t) ==
    /\ threads.pc[t] = "locked"
    /\ \/ /\ threads.call[t].op = "route"
          /\ runtime_selector(threads.call[t].input_ids, {}, TRUE)
          /\ threads' = [threads EXCEPT !.lock = NoThread, !.pc[t] = "metrics",
                                        !.served = Append(@, t)]
       \/ /\ threads.call[t].op = "finish"
          /\ finish_request(threads.call[t].input_ids, threads.call[t].runtime_id,
                            threads.call[t].ttft)
          /\ threads' = [threads EXCEPT !.lock = NoThread, !.pc[t] = "idle",
                                        !.call[t] = [op |-> "none"],
                                        !.served = Append(@, t)]

\* self.metrics_dict.append(...) and return runtime_idx, after the lock
Metrics(t) ==
    /\ threads.pc[t] = "metrics"
    /\ threads' = [threads EXCEPT
           !.pc[t] = "idle",
           !.call[t] = [op |-> "none"],
           !.metrics_dict = Append(@, [rid |-> t,
                                      overhead |-> now - threads.call[t].start_time])]
    /\ UNCHANGED rest

LockCall == \E t \in Threads : Call(t)

LockAcquire == \E t \in Threads : Acquire(t)

LockLocked == \E t \in Threads : Locked(t)

LockMetrics == \E t \in Threads : Metrics(t)

LockMinute == Tick(1, MaxLockTime)

NextLock == LockCall \/ LockAcquire \/ LockLocked \/ LockMetrics \/ LockMinute

SpecLock == InitLock /\ [][NextLock]_vars

\* SpecExpire: two workers without rebalancing; a prefix is served, the
\* scheduler sits idle for longer than the window, and requests under the
\* expired prefix follow.
ExpireRequests == {<<1, 1>>, <<2>>, <<1, 1, 2>>}

ExpireRoute == Route(ExpireRequests, {{}, {1}}, {TRUE}, MaxExpireRoutes)

NextExpire == ExpireRoute \/ Idle

SpecExpire == InitReport /\ [][NextExpire]_vars

\* SpecGuard: two workers with rebalancing; the warm-up requests are hinted
\* to either worker, so that the warm-up ends with the histogram load on one
\* worker or spread over both; then come requests for two prefixes.
GuardWarmUp == Warming /\ Route({WarmSeq}, {{0}, {1}}, {TRUE}, WarmRequests)

GuardRoute ==
    ~Warming /\ Route(OverloadRequests, {{}, {0}}, {TRUE}, WarmRequests + MaxGuardRoutes)

NextGuard == GuardWarmUp \/ GuardRoute

SpecGuard == InitOverload /\ [][NextGuard]_vars

\* SpecEvict: two workers without rebalancing; between route calls the tree
\* evicts nodes from the workers that cache them and calls evict_callback.
EvictRoute == Route(ExpireRequests, {{}}, {TRUE}, MaxEvictRoutes)

Evict == \E node \in nodes, runtime_selected \in Workers(num_gpus) :
             evict_callback(node, runtime_selected)

NextEvict == EvictRoute \/ Evict

SpecEvict == InitReport /\ [][NextEvict]_vars

\* ------------------------------------------------------------ properties
Routed == ev.op = "route"

Completed == Routed /\ ev.err = "none"

\* the leaf of the last route call is small: line 259's test, on the tree as
\* the call left it
LeafIsSmall ==
    num_tokens(nodes, ev.leaf) < context_length(ev.leaf) - num_tokens(nodes, ev.leaf)

\* C1: every route call with a non-empty token sequence and a hint that is
\* absent or a worker id completes normally and returns a worker id in
\* [0, N): no assertion and no failed lookup stops it.
C1_RouteReturnsWorker ==
    Routed => /\ ev.err = "none"
              /\ ev.ret # {}
              /\ \A w \in ev.ret : 0 <= w /\ w < num_gpus

\* C2: two consecutive route calls with the same token sequence, no hint, and
\* no rebalance step in between return the same worker id.
C2_SameRequestSameWorker ==
    (/\ Completed
     /\ ev.prev.valid
     /\ ev.prev.input_ids = ev.input_ids
     /\ ev.prev.hint = {} /\ ev.hint = {}
     /\ ~ev.prev.rebalanced)
    => ev.ret = ev.prev.ret

\* the cost line 268 minimises, in units of 1/LoadUnit
PlacementCost(g) == LoadUnit * ev.recom_costs[g] + ev.load[g]

\* C3: a route call without a hint whose leaf is not small returns the
\* lowest-numbered worker that minimises recompute cost + histogram load; on
\* an empty scheduler that is worker 0, and a second request with a disjoint
\* prefix goes to the worker whose histogram load is 0.
C3_ArgminPlacement ==
    (Completed /\ ev.hint = {} /\ ~LeafIsSmall)
    => /\ \A w \in ev.ret : \A v \in Workers(num_gpus) :
              \/ PlacementCost(w) < PlacementCost(v)
              \/ PlacementCost(w) = PlacementCost(v) /\ w <= v
       /\ ev.alloc0 = EmptyDict => ev.ret = {0}
       /\ (/\ counter = 2 /\ ev.prev.valid /\ ev.prev.ret = {0}
           /\ DOMAIN ev.alloc0 = {Root, ev.prev.input_ids}
           /\ ev.prev.input_ids[1] # ev.input_ids[1])
          => (ev.load[0] > 0 /\ \A w \in ev.ret : w # 0 /\ ev.load[w] = 0)

C3_Witness ==
    /\ Completed /\ ev.hint = {} /\ ~LeafIsSmall
    /\ counter = 2 /\ ev.prev.valid /\ ev.prev.ret = {0}
    /\ DOMAIN ev.alloc0 = {Root, ev.prev.input_ids}
    /\ ev.prev.input_ids[1] # ev.input_ids[1]
    /\ ev.ret = {1}

\* the allocation map as line 260 reads it: the map before the call, the new
\* intermediate node of a split holding a copy of the split child's set
AllocAtDecision ==
    IF ev.split = << >> THEN ev.alloc0
    ELSE Put(ev.alloc0, ev.split[1].new_node, ev.alloc0[ev.split[1].child])

\* parent_allocation: the set of the nearest node, from n upwards, that holds
\* a non-empty set; every worker when there is none up to the root
RECURSIVE ParentAllocation(_, _)
ParentAllocation(A, n) ==
    IF n \in DOMAIN A /\ A[n] # {} THEN A[n]
    ELSE IF n = Root THEN Workers(num_gpus)
    ELSE ParentAllocation(A, Parent(nodes, n))

\* C4, as stated: a route call whose leaf is small returns a member of
\* parent_allocation(leaf) as it stood before the call, whatever the costs,
\* the histogram load and the hint.
C4_InheritsFromMapBeforeCall ==
    (Completed /\ LeafIsSmall)
    => ev.ret \subseteq ParentAllocation(ev.alloc0, ev.leaf)

\* C4, amended: a route call whose leaf is small returns a member of
\* parent_allocation(leaf) taken on the map as split handling leaves it (the
\* map before the call, a new intermediate node holding a copy of the split
\* child's set), whatever the costs, the histogram load and the hint.
C4_SmallLeafInherits ==
    (Completed /\ LeafIsSmall)
    => ev.ret \subseteq ParentAllocation(AllocAtDecision, ev.leaf)

\* a small leaf under a split, hinted to a worker outside the inherited set
C4_Witness ==
    /\ Completed /\ LeafIsSmall
    /\ ev.split # << >>
    /\ ev.hint # {} /\ ev.hint # ev.ret
    /\ ParentAllocation(AllocAtDecision, ev.leaf) # Workers(num_gpus)

\* C5: histogram purity: after a route call at time t every event left in the
\* FIFO has a timestamp >= t - window.
C5_HistogramPurity ==
    Routed => \A i \in 1..Len(timestamps) :
                  timestamps[i][1] >= ev.clock - window_duration

\* the call purged some events and kept older ones than its own
C5_Witness ==
    /\ Routed /\ ev.purged > 0
    /\ Len(timestamps) >= 2
    /\ timestamps[1][1] = ev.clock - window_duration

\* C6: allocation non-emptiness: in every state reached after a completed
\* route call (counter counts them) every node with a non-zero histogram
\* count has an allocation entry with at least one worker.
C6_AllocationNonEmpty ==
    counter > 0 => \A n \in DOMAIN histogram :
                       histogram[n] # 0
                       => n \in DOMAIN gpu_allocations /\ gpu_allocations[n] # {}

\* the call's purge reset the allocation of an expired node and kept an
\* older event of another node
C6_Witness ==
    /\ Completed /\ ev.purged > 0
    /\ \E n \in DOMAIN gpu_allocations : gpu_allocations[n] = {}
    /\ Len(timestamps) >= 2

\* C7: when a split makes the new intermediate node large and the child not,
\* then after split handling the intermediate holds the child's former
\* weighted count and event count, and nothing in the histogram, in its FIFO
\* or in the overload detector is keyed by the child any more.
C7_SplitRenameComplete ==
    (/\ Routed /\ ev.split # << >>
     /\ is_large_node(nodes, ev.split[1].new_node)
     /\ ~is_large_node(nodes, ev.split[1].child))
    => /\ ev.split[1].new_cost = ev.split[1].child_cost0
       /\ ev.split[1].new_count = ev.split[1].child_count0
       /\ ~ev.split[1].child_in_hist
       /\ ~ev.split[1].child_in_events
       /\ ev.split[1].child_series = {}

\* the rebalancer's levels of the last route call that took the given path
Levels(path) == {i \in 1..Len(ev.levels) : ev.levels[i].path = path}

\* the candidate of a single-candidate level
Candidate(lv) == (CHOOSE c \in lv.heap : TRUE)[2]

\* C8: replication on overload: in the single-candidate path the candidate's
\* allocation set changes only if the cold worker is not in it and
\* is_node_overloaded(node, hot) is true; then the set afterwards is the set
\* before plus the cold worker and the series of (node, hot) is gone;
\* otherwise the allocation map and the detector are left as they were.
C8_ReplicationOnOverload ==
    Routed => \A i \in Levels("single") :
        LET lv == ev.levels[i]
            node == Candidate(lv)
            key == <<node, lv.larger>>
        IN IF /\ lv.smaller \notin lv.alloc0[node]
              /\ is_node_overloaded(lv.data0, node, lv.larger, ev.clock)
           THEN /\ DOMAIN lv.alloc1 = DOMAIN lv.alloc0
                /\ lv.alloc1[node] = lv.alloc0[node] \cup {lv.smaller}
                /\ \A n \in DOMAIN lv.alloc0 \ {node} : lv.alloc1[n] = lv.alloc0[n]
                /\ DOMAIN lv.data1 = DOMAIN lv.data0 \ {key}
                /\ \A k \in DOMAIN lv.data1 : lv.data1[k] = lv.data0[k]
                /\ (i = Len(ev.levels) /\ ev.err = "none")
                   => (gpu_allocations = lv.alloc1 /\ data = lv.data1)
           ELSE lv.alloc1 = lv.alloc0 /\ lv.data1 = lv.data0

\* a single-candidate level copied its node to the cold worker and dropped a
\* series that existed
C8_Witness ==
    Routed /\ \E i \in Levels("single") :
        LET lv == ev.levels[i]
        IN /\ lv.alloc1[Candidate(lv)] = lv.alloc0[Candidate(lv)] \cup {lv.smaller}
           /\ lv.smaller \notin lv.alloc0[Candidate(lv)]
           /\ <<Candidate(lv), lv.larger>> \in DOMAIN lv.data0
           /\ <<Candidate(lv), lv.larger>> \notin DOMAIN data

\* C9: reassignment never inverts the imbalance: the multi-candidate path
\* takes its candidates in ascending cost order, passes over those whose set
\* holds the cold worker without changing anything, reassigns one to {cold}
\* only if hot - cost >= cold + cost for the running values, stops at the first
\* candidate that fails this test, and so after every reassignment the running
\* hot value is >= the running cold value.
C9_ReassignmentNeverInverts ==
    Routed => \A i \in Levels("multi") :
        LET lv == ev.levels[i]
            s == lv.steps
            k == Len(s)
            hot_after(j) == IF s[j].act = "reassign" THEN s[j].hot - s[j].cost
                            ELSE s[j].hot
            cold_after(j) == IF s[j].act = "reassign" THEN s[j].cold + s[j].cost
                             ELSE s[j].cold
        IN /\ \A j \in 1..k : <<s[j].cost \div LoadUnit, s[j].node>> \in lv.heap
           /\ \A j \in 1..k, m \in 1..k : j < m => s[j].cost <= s[m].cost
           /\ \A j \in 1..k :
                 /\ s[j].act # "assert" => (s[j].act = "skip" <=> s[j].had_cold)
                 /\ s[j].act = "reassign"
                    => /\ s[j].hot - s[j].cost >= s[j].cold + s[j].cost
                       /\ hot_after(j) >= cold_after(j)
                       /\ lv.alloc1[s[j].node] = {lv.smaller}
                 /\ s[j].act = "break"
                    => /\ s[j].hot - s[j].cost < s[j].cold + s[j].cost
                       /\ j = k
                 /\ j < k => /\ s[j + 1].hot = hot_after(j)
                             /\ s[j + 1].cold = cold_after(j)
                 /\ j = k => lv.hot1 = hot_after(j) /\ lv.cold1 = cold_after(j)
           /\ k > 0 => s[1].hot = lv.hot0 /\ s[1].cold = lv.cold0
           /\ (\A j \in 1..k : s[j].act # "reassign") => lv.alloc1 = lv.alloc0

\* a multi-candidate level reassigned one candidate and stopped at a later one
C9_Witness ==
    Routed /\ \E i \in Levels("multi") :
        \E j \in 1..Len(ev.levels[i].steps), m \in 1..Len(ev.levels[i].steps) :
            /\ j < m
            /\ ev.levels[i].steps[j].act = "reassign"
            /\ ev.levels[i].steps[m].act = "break"

\* the samples of a series in the first half [t - W, t - W/2) of the window
WindowFirstHalf(q, t) ==
    SelectSeq(q, LAMBDA x : t - window_duration <= x[1]
                            /\ 2 * x[1] < 2 * t - window_duration)

\* the samples of a series in the second half [t - W/2, t] of the window
WindowSecondHalf(q, t) ==
    SelectSeq(q, LAMBDA x : 2 * x[1] >= 2 * t - window_duration /\ x[1] <= t)

\* C10: is_node_overloaded(node, worker) asked at time t is true if and only
\* if the halves [t - W, t - W/2) and [t - W/2, t] of the window each hold a
\* sample of (node, worker) and the mean of the second half is >= 2 times the
\* mean of the first; samples older than t - W play no part, and a missing
\* series or an empty half gives false.
C10_HalfWindowOverload ==
    \A node \in nodes \cup {Root}, gpu \in Workers(num_gpus) :
        is_node_overloaded(data, node, gpu, now)
        <=> /\ <<node, gpu>> \in DOMAIN data
            /\ WindowFirstHalf(data[<<node, gpu>>], now) # << >>
            /\ WindowSecondHalf(data[<<node, gpu>>], now) # << >>
            /\ SumValues(WindowSecondHalf(data[<<node, gpu>>], now))
                 * Len(WindowFirstHalf(data[<<node, gpu>>], now))
               >= 2 * SumValues(WindowFirstHalf(data[<<node, gpu>>], now))
                    * Len(WindowSecondHalf(data[<<node, gpu>>], now))

\* C11: a finish call that names a worker id outside [0, N) is rejected
\* without changing the scheduler: the detector's series, the histogram, the
\* allocation map and the per-worker load counters are after the call what
\* they were before it.
C11_UnknownWorkerRejected ==
    [][(ev'.op = "finish" /\ ev'.runtime_id \notin Workers(num_gpus))
       => /\ data' = data
          /\ histogram' = histogram
          /\ node_to_count' = node_to_count
          /\ timestamps' = timestamps
          /\ gpu_allocations' = gpu_allocations
          /\ per_gpu_load' = per_gpu_load]_vars

\* C12: under any interleaving of concurrent route and finish calls, the
\* locked block of one call never overlaps that of another, the calls take
\* effect one at a time in the order in which they acquired the lock, and the
\* timestamps of the histogram's FIFO never decrease from head to tail.
C12_Serialized ==
    /\ Cardinality({t \in Threads : threads.pc[t] = "locked"}) <= 1
    /\ \A t \in Threads : threads.pc[t] = "locked" <=> threads.lock = t
    /\ Len(threads.served) <= Len(threads.acquired)
    /\ \A i \in 1..Len(threads.served) : threads.served[i] = threads.acquired[i]
    /\ \A i, j \in 1..Len(timestamps) : i < j => timestamps[i][1] <= timestamps[j][1]

\* one thread holds the lock while another waits for it, after an earlier call
\* was served at an earlier minute
C12_Witness ==
    /\ \E t, u \in Threads : threads.pc[t] = "locked" /\ threads.pc[u] = "waiting"
    /\ Len(threads.served) >= 2
    /\ Len(timestamps) >= 2
    /\ timestamps[1][1] < timestamps[Len(timestamps)][1]

\* the set stored at the nearest node, from n upwards, that has an entry in the
\* map A, empty or not; every worker when no node up to the root has one
RECURSIVE NearestEntry(_, _)
NearestEntry(A, n) ==
    IF n \in DOMAIN A THEN A[n]
    ELSE IF n = Root THEN Workers(num_gpus)
    ELSE NearestEntry(A, Parent(nodes, n))

C14_LoadReadAfterPurge ==
    (Routed /\ ~ev.small /\ ev.hint = {}) => ev.load = ev.fresh

\* C15: after a route call has selected worker c, the placement step changes
\* the allocation map only by adding c: the set of the leaf and of each of
\* its ancestors is the set before united with {c}, the sets of the nodes off
\* the leaf-to-root path are unchanged, and the load counter of c alone grows,
\* by exactly 1.
C15_PlacementAddsOnlyChosen ==
    Routed =>
        /\ \A n \in PathToRoot(nodes, ev.leaf) :
               ev.placed1[n] = Get(ev.placed0, n, {}) \cup {ev.runtime_idx}
        /\ \A n \in (DOMAIN ev.placed1) \ PathToRoot(nodes, ev.leaf) :
               n \in DOMAIN ev.placed0 /\ ev.placed1[n] = ev.placed0[n]
        /\ per_gpu_load = [ev.load0 EXCEPT ![ev.runtime_idx] = @ + 1]

\* C16: when a rebalance pass finishes, every node that the multi-candidate
\* path reassigned and every descendant of it hold the same single-worker set
\* {cold}, in whatever order the candidates were taken and over all the
\* levels of the recursion.
C16_SubtreeFollowsReassignment ==
    Completed => \A i \in Levels("multi") :
        \A j \in 1..Len(ev.levels[i].steps) :
            ev.levels[i].steps[j].act = "reassign"
            => LET node == ev.levels[i].steps[j].node
                   cold == ev.levels[i].smaller
               IN /\ gpu_allocations[node] = {cold}
                  /\ \A d \in Descendants(nodes, node) :
                         d \in DOMAIN gpu_allocations /\ gpu_allocations[d] = {cold}

\* a pass reassigned a node that has a grandchild whose set held another worker
C16_Witness ==
    /\ Completed
    /\ \E i \in Levels("multi") : \E j \in 1..Len(ev.levels[i].steps) :
           /\ ev.levels[i].steps[j].act = "reassign"
           /\ \E d \in Descendants(nodes, ev.levels[i].steps[j].node) :
                  /\ Parent(nodes, d) # ev.levels[i].steps[j].node
                  /\ ev.placed1[d] # {ev.levels[i].smaller}

\* the histogram load per worker as handle_important_node_stealing reads it
\* during the last route call (line 312), highest and lowest
RebalanceLoad == current_allocation_per_gpu(histogram, ev.placed1, num_gpus)

HighestLoad == CHOOSE x \in {RebalanceLoad[g] : g \in Workers(num_gpus)} :
                   \A g \in Workers(num_gpus) : RebalanceLoad[g] <= x

LowestLoad == CHOOSE x \in {RebalanceLoad[g] : g \in Workers(num_gpus)} :
                  \A g \in Workers(num_gpus) : RebalanceLoad[g] >= x

\* C17: the rebalancer leaves the allocation map and the overload detector as
\* the placement step left them when rebalancing is disabled, or the sum of
\* the per-worker load counters (after the call's own increment) is below 50,
\* or the highest histogram load is below 1.4 times the lowest; so it can
\* change them on the 50th routed request at the earliest.
C17_RebalanceGuards ==
    Routed =>
        /\ (\/ ~enable_rebalancing
            \/ SumLoad(per_gpu_load, Workers(num_gpus)) < MIN_TOTAL_LOAD
            \/ ThresholdDen * HighestLoad < ThresholdNum * LowestLoad)
           => (gpu_allocations = ev.placed1 /\ data = ev.data0)
        /\ (gpu_allocations # ev.placed1 \/ data # ev.data0)
           => SumLoad(per_gpu_load, Workers(num_gpus)) >= MIN_TOTAL_LOAD

\* a call at or past the 50th request that found the two workers' histogram
\* loads unequal but within the factor 1.4
C17_Witness ==
    /\ Routed /\ enable_rebalancing
    /\ SumLoad(per_gpu_load, Workers(num_gpus)) >= MIN_TOTAL_LOAD
    /\ LowestLoad > 0 /\ LowestLoad < HighestLoad
    /\ ThresholdDen * HighestLoad < ThresholdNum * LowestLoad
    /\ gpu_allocations = ev.placed1

\* a list of (worker, load) pairs in descending order of load
Descending(L) == \A a, b \in 1..Len(L) : a < b => L[a][2] >= L[b][2]

\* C18: at every level of the rebalancer's recursion the list of (worker,
\* load) pairs is in descending order of load: the list a level receives is,
\* and so is the sub-list it hands to the next level, in which the cold worker
\* stands where its raised load puts it.
C18_ListStaysSorted ==
    Routed => \A i \in 1..Len(ev.levels) :
                  Descending(ev.levels[i].L) /\ Descending(ev.levels[i].next)

\* C19: in every reachable state every key of the histogram is a large node,
\* after splits too; hence the assertion of the multi-candidate path
\* (assert self.is_large_node(node)) never fails.
C19_HistogramKeysLarge ==
    /\ \A n \in DOMAIN histogram : is_large_node(nodes, n)
    /\ ev.op = "route" => ev.err # "AssertionError"

\* C20: after on_evict(node, w) the worker w is not in the allocation set of
\* node, whether node is large or small; if node is large, w is in no
\* descendant's set either; and the callback completes and returns the number
\* of tokens of node.
C20_EvictRemovesWorker ==
    ev.op = "evict" =>
        /\ ev.err = "none"
        /\ ev.ret = {num_tokens(nodes, ev.node)}
        /\ ev.runtime_selected \notin Get(gpu_allocations, ev.node, {})
        /\ is_large_node(nodes, ev.node)
           => \A d \in Descendants(nodes, ev.node) :
                  ev.runtime_selected \notin Get(gpu_allocations, d, {})

\* the positions of the FIFO's events keyed by node n
EventsOf(n) == {i \in 1..Len(timestamps) : timestamps[i][2] = n}

\* the sum of leaf_node.context_length over the events at the positions I
RECURSIVE EventWeight(_)
EventWeight(I) ==
    IF I = {} THEN 0
    ELSE LET i == CHOOSE x \in I : TRUE
         IN context_length(timestamps[i][3]) + EventWeight(I \ {i})

\* C21: histogram accounting: in every state, for every node n the weighted
\* count of n is the sum of leaf.context_length over the FIFO's events keyed
\* by n, the event count of n is the number of those events, and n has an
\* entry in the histogram exactly when an event keyed by it is in the FIFO.
C21_HistogramAccounting ==
    \A n \in nodes \cup {Root} \cup DOMAIN histogram \cup DOMAIN node_to_count
             \cup {timestamps[i][2] : i \in 1..Len(timestamps)} :
        /\ n \in DOMAIN histogram <=> EventsOf(n) # {}
        /\ n \in DOMAIN node_to_count <=> EventsOf(n) # {}
        /\ EventsOf(n) # {}
           => /\ histogram[n] = EventWeight(EventsOf(n))
              /\ node_to_count[n] = Cardinality(EventsOf(n))

\* a call that expired an event and split a node whose key was renamed, and
\* left the renamed key with two events
C21_Witness ==
    /\ Routed
    /\ ev.purged > 0
    /\ ev.split # << >>
    /\ ev.split[1].child_count0 > 0 /\ ev.split[1].new_count > 0
    /\ ev.split[1].new_node \in DOMAIN node_to_count
    /\ node_to_count[ev.split[1].new_node] >= 2

====
